---- MODULE Spec2Model ----
(***************************************************************************)
(* Model of the job pipeline of increasevol.py: the JobsQueue scheduler,   *)
(* the Job state machine, and the ProcessLauncher supervisor with its two  *)
(* subclasses FfprobeLauncher and FfmpegLauncher.                          *)
(*                                                                         *)
(* Every GLib main-loop callback (a menu action, an idle callback, an      *)
(* asynchronous read completion, a process-exit completion) is one action. *)
(* A callback runs to completion, so every method it calls and every       *)
(* signal handler it triggers synchronously is part of the same action.    *)
(* Methods are operators from a state record to a state record, which lets *)
(* them be composed the way the calls nest in the source.                  *)
(*                                                                         *)
(* An exception raised inside a GObject signal handler is printed and      *)
(* dropped at the closure boundary: emit() returns normally to its caller. *)
(***************************************************************************)
EXTENDS Integers, Sequences, FiniteSets, TLC

\* ---------------------------------------------------------------- bounds
\* number of Job objects ever created (cap on JobsQueue._job_id), in a run
\* that follows every job through its pipeline in full
MaxJobs == 2
\* the same in a run that looks at the queue, see Worlds
QueueJobs == 3
\* number of output lines one ffprobe process delivers
MaxLines == 2
\* number of failures of the environment in one run: a process that cannot
\* be spawned, a read error, a process that ends with an error it was not
\* asked for, a probe that prints something else than one positive number,
\* a file-system call that fails
MaxFaults == 1
\* faults in one run of the "commit" world
CommitFaults == 3
\* upper limit of the "Number of jobs" spin button (os.cpu_count())
CpuCount == 2

Max(a, b) == IF a >= b THEN a ELSE b

Ids == 0 .. (Max(MaxJobs, QueueJobs) - 1)
PathSeq == <<"a.mkv", "b.mkv", "c.mkv">>
Paths == {PathSeq[i] : i \in DOMAIN PathSeq}

\* What the user and the external programs do in one run.  "pipeline": few
\* files, the preferences change, ffmpeg prints progress.  "queue": more
\* files, the original is never kept, the user changes only the number of
\* jobs and a Terminate from the menu is counted with the faults, ffmpeg
\* prints no progress line.  "commit": as "queue" with the files of
\* "pipeline", and more faults in a run.  The program is the same in all.
Worlds == {"pipeline", "queue", "commit"}

\* Output lines of ffprobe: two durations and a line that is not a number.
ProbeLines == {"5.000000", "0.000000", "N/A"}
\* Output lines of ffmpeg: two progress lines, the second with an elapsed
\* time beyond the duration ffprobe gives, and a line without the marker.
FfmpegLines == {"frame=1 time=00:00:02.00 ", "frame=2 time=00:00:06.00 ",
                "Press [q] to stop"}

\* How a process ends, as seen by wait_check_finish.
Exits == {"ok", "err", "e255"}

\* Outcomes of the file-system calls made inside one callback.
\* A callback makes at most one call that can fail after another one failed,
\* so the outcomes are: all calls succeed, or one named call fails.
EnvOk == [mkstemp_ok |-> TRUE, rm_temp_ok |-> TRUE,
          rm_orig_ok |-> TRUE, rename_ok |-> TRUE]

Fails(call) == [EnvOk EXCEPT ![call] = FALSE]

VARIABLES
    max_jobs,        \* config.max_jobs
    keep_original,   \* config.keep_original
    job_id,          \* JobsQueue._job_id
    job_queue,       \* JobsQueue._job_queue : sequence of job ids
    running_jobs,    \* JobsQueue._running_jobs : sequence of job ids
    rows,            \* ids that have a row in the Gtk.ListStore
    row,             \* the ListStore columns of each row
    job,             \* the fields of each Job object
    ffprobe,         \* the FfprobeLauncher of each Job
    ffmpeg,          \* the FfmpegLauncher of each Job
    file,            \* content of the file at each input path
    output,          \* whether the keep-original output file of a path exists
    temp,            \* whether the temporary output file of a job exists
    notified,        \* per job: the calls of JobsQueue._finished_job, counted
    crashed,         \* the process died on a use of a removed ListStore row
    faults,          \* number of failures the environment has produced so far
    world            \* the kind of run, see Worlds

vars == <<max_jobs, keep_original, job_id, job_queue, running_jobs, rows, row,
          job, ffprobe, ffmpeg, file, output, temp, notified, crashed, faults, world>>

\* ------------------------------------------------------------- helpers
Range(q) == {q[i] : i \in DOMAIN q}

Without(q, x) == SelectSeq(q, LAMBDA y : y # x)

\* list.remove(x): removes the first occurrence (ids occur at most once).
ListRemove(q, x) == Without(q, x)

NoRow == [file_name |-> "", status |-> "None", progress |-> 0, error |-> "",
          keep_original |-> FALSE]

NoJob == [file_name |-> "", ffprobe |-> FALSE, ffmpeg |-> FALSE, duration |-> 0,
          tempOutput |-> FALSE, keep_original |-> FALSE, via |-> ""]

\* elapsed is not a field of the launcher: it is the elapsed time the process
\* printed last.
NoLauncher == [st |-> "none", term_signaled |-> FALSE, error |-> FALSE,
               reading |-> FALSE, n_lines |-> 0, duration |-> 0,
               reports |-> <<>>, elapsed |-> 0]

\* ProcessLauncher.__init__ and the subclass __init__: no process yet, run()
\* is scheduled with GLib.idle_add by the caller.
NewLauncher(duration) == [NoLauncher EXCEPT !.st = "idle", !.duration = duration]

Terminal == {"Failed", "Finished", "Terminated"}

\* calls: calls of _finished_job for the job; stray: those among them made
\* while the job was not in _running_jobs
NoCalls == [calls |-> 0, stray |-> 0]

\* The current state as one record.  dialog is the text of the error dialog
\* a callback opens with error_message(); it is not kept between callbacks.
S == [max_jobs |-> max_jobs, keep_original |-> keep_original, job_id |-> job_id,
      job_queue |-> job_queue, running_jobs |-> running_jobs, rows |-> rows,
      row |-> row, job |-> job, ffprobe |-> ffprobe, ffmpeg |-> ffmpeg,
      file |-> file, output |-> output, temp |-> temp,
      notified |-> notified, crashed |-> crashed, faults |-> faults,
      world |-> world, dialog |-> ""]

\* Python frees an object when the last reference to it goes.  A launcher is
\* referenced by its pending GLib callbacks only (the Job drops its reference
\* when the launcher reports); a Job is referenced by the lists of JobsQueue
\* and by the signal connections of its launchers.  The ListStore row is not
\* part of the Job.  What is kept of a freed launcher is the list of reports
\* it made, until the row of its job is removed as well.
Pending(s, j) == s.ffprobe[j].st \in {"idle", "live"} \/ s.ffmpeg[j].st \in {"idle", "live"}

Referenced(s, j) == j \in Range(s.running_jobs) \cup Range(s.job_queue) \/ Pending(s, j)

Freed(l) == IF l.st \in {"exited", "failed"}
            THEN [NoLauncher EXCEPT !.st = l.st, !.reports = l.reports]
            ELSE l

Collect(s) ==
    LET dead == {j \in Ids : ~Referenced(s, j)}
        lost == {j \in dead : j \notin s.rows}
    IN [s EXCEPT !.job = [j \in Ids |-> IF j \in dead THEN NoJob ELSE @[j]],
                 !.ffprobe = [j \in Ids |-> IF j \in lost THEN NoLauncher ELSE Freed(@[j])],
                 !.ffmpeg = [j \in Ids |-> IF j \in lost THEN NoLauncher ELSE Freed(@[j])],
                 !.notified = [j \in Ids |-> IF j \in lost THEN NoCalls ELSE @[j]]]

\* A callback runs while the program is alive, and leaves the state t.
Becomes(t) ==
    /\ ~crashed
    /\ \E t0 \in {t} : \E s \in {Collect(t0)} :
          /\ max_jobs' = s.max_jobs
          /\ keep_original' = s.keep_original
          /\ job_id' = s.job_id
          /\ job_queue' = s.job_queue
          /\ running_jobs' = s.running_jobs
          /\ rows' = s.rows
          /\ row' = s.row
          /\ job' = s.job
          /\ ffprobe' = s.ffprobe
          /\ ffmpeg' = s.ffmpeg
          /\ file' = s.file
          /\ output' = s.output
          /\ temp' = s.temp
          /\ notified' = s.notified
          /\ crashed' = s.crashed
          /\ faults' = s.faults
          /\ world' = s.world

\* self._model[self._row][column] = value.  A row that was removed from the
\* ListStore cannot be written; see StaleRow for the other outcome.
SetRow(s, j, r) == IF j \in s.rows THEN [s EXCEPT !.row[j] = r] ELSE s

\* ------------------------------------------------------------------ Job
\* via is not a field of Job: it records which method of JobsQueue put the
\* job where it is ("launch", "queue", "dequeue", "force").
Job_init(s, id, path, via) ==
    [s EXCEPT !.rows = @ \cup {id},
              !.row[id] = [file_name |-> path, status |-> "Queued", progress |-> 0,
                           error |-> "", keep_original |-> s.keep_original],
              !.job[id] = [NoJob EXCEPT !.file_name = path,
                                        !.keep_original = s.keep_original,
                                        !.via = via]]

\* variant: leaves the status of the row as it is
get_duration_keep_status(s, j) ==
    [s EXCEPT !.job[j].ffprobe = TRUE,
              !.ffprobe[j] = NewLauncher(0)]

get_duration(s, j) ==
    LET s1 == SetRow(s, j, [s.row[j] EXCEPT !.status = "Running"])
    IN [s1 EXCEPT !.job[j].ffprobe = TRUE,
                  !.ffprobe[j] = NewLauncher(0)]

\* ------------------------------------------------------------ JobsQueue
\* variant: takes the job queued last
dequeue_job_last(s) ==
    LET j == s.job_queue[Len(s.job_queue)]
    IN get_duration([s EXCEPT !.job_queue = SubSeq(@, 1, Len(@) - 1),
                              !.running_jobs = Append(@, j),
                              !.job[j].via = "dequeue"], j)

dequeue_job(s) ==
    LET j == Head(s.job_queue)
    IN get_duration([s EXCEPT !.job_queue = Tail(@),
                              !.running_jobs = Append(@, j),
                              !.job[j].via = "dequeue"], j)

RECURSIVE check_queue(_)
check_queue(s) ==
    IF Len(s.job_queue) > 0 /\ Len(s.running_jobs) < s.max_jobs
    THEN check_queue(dequeue_job(s))
    ELSE s

\* variant: looks at the running jobs only
is_running(s, path) ==
    path \in {s.job[j].file_name : j \in Range(s.running_jobs)}

is_queued_or_running(s, path) ==
    path \in {s.job[j].file_name : j \in Range(s.running_jobs)}
             \cup {s.job[j].file_name : j \in Range(s.job_queue)}

\* variant: does not advance the id counter
launch_job_same_id(s, path) ==
    LET id == s.job_id
        s1 == Job_init(s, id, path, "launch")
    IN get_duration([s1 EXCEPT !.running_jobs = Append(@, id)], id)

launch_job(s, path) ==
    LET id == s.job_id
        s1 == Job_init([s EXCEPT !.job_id = @ + 1], id, path, "launch")
    IN get_duration([s1 EXCEPT !.running_jobs = Append(@, id)], id)

queue_job(s, path) ==
    LET id == s.job_id
        s1 == Job_init([s EXCEPT !.job_id = @ + 1], id, path, "queue")
    IN [s1 EXCEPT !.job_queue = Append(@, id)]

\* variant: does not compare with config.max_jobs
add_job_unbounded(s, path) ==
    IF is_queued_or_running(s, path)
    THEN [s EXCEPT !.dialog = "Duplicated entry"]
    ELSE launch_job(s, path)

add_job(s, path) ==
    IF is_queued_or_running(s, path)
    THEN [s EXCEPT !.dialog = "Duplicated entry"]
    ELSE IF Len(s.running_jobs) >= s.max_jobs
         THEN queue_job(s, path)
         ELSE launch_job(s, path)

\* variant: does not look at the queue
finished_job_no_check(s, j) ==
    IF j \in Range(s.running_jobs)
    THEN [s EXCEPT !.notified[j].calls = @ + 1,
                   !.running_jobs = ListRemove(@, j)]
    ELSE [s EXCEPT !.notified[j].calls = @ + 1, !.notified[j].stray = @ + 1]

\* list.remove raises ValueError when the job is not in _running_jobs; the
\* rest of the handler is then skipped.
finished_job(s, j) ==
    IF j \in Range(s.running_jobs)
    THEN check_queue([s EXCEPT !.notified[j].calls = @ + 1,
                               !.running_jobs = ListRemove(@, j)])
    ELSE [s EXCEPT !.notified[j].calls = @ + 1, !.notified[j].stray = @ + 1]

finished_with_error_job(s, j) ==
    LET s1 == finished_job(s, j)
    IN IF j \in Range(s.running_jobs)
       THEN [s1 EXCEPT !.dialog = "Error processing file"]
       ELSE s1

\* ------------------------------------------------- Job (signal handlers)
\* Error texts, shortened to their fixed part.
ErrMoreLines == "Expected just one line, got more"
ErrNotFloat == "Trying to read a float got error"
ErrOutputExists == "Output file exists"
ErrMkstemp == "Error creating temporal file"
ErrNotRenaming == "File exists. Not renaming"
ErrRenaming == "Error renaming"
ErrRemoving == "Error removing"
ErrSpawn == "spawn error"
ErrRead == "read error"
ErrExit == "Child process exited with error"

\* variant: marks the rows of all running jobs as Failed
manage_error_all(s, j, error, remove_temp_output, env) ==
    LET s1 == [s EXCEPT !.job[j].ffprobe = FALSE, !.job[j].ffmpeg = FALSE]
        s2 == [s1 EXCEPT !.row = [i \in Ids |->
                  IF i = j \/ i \in Range(s1.running_jobs)
                  THEN [s1.row[i] EXCEPT !.status = "Failed", !.error = error]
                  ELSE s1.row[i]]]
        s3 == IF /\ remove_temp_output
                 /\ s2.job[j].tempOutput
                 /\ s2.temp[j]
                 /\ env.rm_temp_ok
              THEN [s2 EXCEPT !.temp[j] = FALSE]
              ELSE s2
    IN finished_with_error_job(s3, j)

manage_error(s, j, error, remove_temp_output, env) ==
    LET s1 == [s EXCEPT !.job[j].ffprobe = FALSE, !.job[j].ffmpeg = FALSE]
        s2 == SetRow(s1, j, [s1.row[j] EXCEPT !.status = "Failed", !.error = error])
        s3 == IF /\ remove_temp_output
                 /\ s2.job[j].tempOutput
                 /\ s2.temp[j]
                 /\ env.rm_temp_ok
              THEN [s2 EXCEPT !.temp[j] = FALSE]
              ELSE s2
    IN finished_with_error_job(s3, j)

manage_termination(s, j) ==
    LET s1 == [s EXCEPT !.job[j].ffprobe = FALSE, !.job[j].ffmpeg = FALSE]
        s2 == SetRow(s1, j, [s1.row[j] EXCEPT !.status = "Terminated"])
    IN finished_job(s2, j)

\* variant: creates the temporary file before it looks for the output file
increase_volume_temp_first(s, j, duration, env) ==
    LET path == s.job[j].file_name
        s1 == [s EXCEPT !.job[j].ffprobe = FALSE, !.job[j].duration = duration]
    IN IF duration = 0
       THEN s1
       ELSE IF ~env.mkstemp_ok
       THEN manage_error(s1, j, ErrMkstemp, TRUE, env)
       ELSE IF s1.job[j].keep_original /\ s1.output[path]
       THEN manage_error([s1 EXCEPT !.temp[j] = TRUE, !.job[j].tempOutput = TRUE],
                         j, ErrOutputExists, FALSE, env)
       ELSE [s1 EXCEPT !.temp[j] = TRUE,
                       !.job[j].tempOutput = TRUE,
                       !.job[j].ffmpeg = TRUE,
                       !.ffmpeg[j] = NewLauncher(duration)]

increase_volume(s, j, duration, env) ==
    LET path == s.job[j].file_name
        s1 == [s EXCEPT !.job[j].ffprobe = FALSE, !.job[j].duration = duration]
    IN IF duration = 0
       THEN s1
       ELSE IF s1.job[j].keep_original /\ s1.output[path]
       THEN manage_error(s1, j, ErrOutputExists, FALSE, env)
       ELSE IF ~env.mkstemp_ok
       THEN manage_error(s1, j, ErrMkstemp, TRUE, env)
       ELSE [s1 EXCEPT !.temp[j] = TRUE,
                       !.job[j].tempOutput = TRUE,
                       !.job[j].ffmpeg = TRUE,
                       !.ffmpeg[j] = NewLauncher(duration)]

update_conversion_state(s, j, progress_percent) ==
    SetRow(s, j, [s.row[j] EXCEPT !.progress = progress_percent])

\* os.rename(self._tempOutput, target) succeeds only if the temp file exists.
RenameOk(s, j, env) == s.temp[j] /\ env.rename_ok

\* os.remove(self.file_name) succeeds only if the file exists.
RemoveOk(s, path, env) == s.file[path] # "absent" /\ env.rm_orig_ok

\* variant: removes the temporary file when the output file exists
conversion_finished_cleanup(s, j, env) ==
    LET path == s.job[j].file_name
        s0 == [s EXCEPT !.job[j].ffmpeg = FALSE]
        s1 == SetRow(s0, j, [s0.row[j] EXCEPT !.status = "Finished", !.progress = 100])
    IN IF s1.job[j].keep_original
       THEN IF s1.output[path]
            THEN manage_error(s1, j, ErrNotRenaming, TRUE, env)
            ELSE IF RenameOk(s1, j, env)
                 THEN finished_job([s1 EXCEPT !.temp[j] = FALSE,
                                              !.output[path] = TRUE], j)
                 ELSE finished_job(manage_error(s1, j, ErrRenaming, FALSE, env), j)
       ELSE IF ~RemoveOk(s1, path, env)
            THEN manage_error(s1, j, ErrRemoving, FALSE, env)
            ELSE LET s2 == [s1 EXCEPT !.file[path] = "absent"]
                 IN IF RenameOk(s2, j, env)
                    THEN finished_job([s2 EXCEPT !.temp[j] = FALSE,
                                                 !.file[path] = "transcoded"], j)
                    ELSE finished_job(manage_error(s2, j, ErrRenaming, FALSE, env), j)

\* variant: reads keep_original from the configuration when the transcoder ends
conversion_finished_live_config(s, j, env) ==
    LET path == s.job[j].file_name
        s0 == [s EXCEPT !.job[j].ffmpeg = FALSE]
        s1 == SetRow(s0, j, [s0.row[j] EXCEPT !.status = "Finished", !.progress = 100])
    IN IF s1.keep_original
       THEN IF s1.output[path]
            THEN manage_error(s1, j, ErrNotRenaming, FALSE, env)
            ELSE IF RenameOk(s1, j, env)
                 THEN finished_job([s1 EXCEPT !.temp[j] = FALSE,
                                              !.output[path] = TRUE], j)
                 ELSE finished_job(manage_error(s1, j, ErrRenaming, FALSE, env), j)
       ELSE IF ~RemoveOk(s1, path, env)
            THEN manage_error(s1, j, ErrRemoving, FALSE, env)
            ELSE LET s2 == [s1 EXCEPT !.file[path] = "absent"]
                 IN IF RenameOk(s2, j, env)
                    THEN finished_job([s2 EXCEPT !.temp[j] = FALSE,
                                                 !.file[path] = "transcoded"], j)
                    ELSE finished_job(manage_error(s2, j, ErrRenaming, FALSE, env), j)

conversion_finished(s, j, env) ==
    LET path == s.job[j].file_name
        s0 == [s EXCEPT !.job[j].ffmpeg = FALSE]
        s1 == SetRow(s0, j, [s0.row[j] EXCEPT !.status = "Finished", !.progress = 100])
    IN IF s1.job[j].keep_original
       THEN IF s1.output[path]
            THEN manage_error(s1, j, ErrNotRenaming, FALSE, env)
            ELSE IF RenameOk(s1, j, env)
                 THEN finished_job([s1 EXCEPT !.temp[j] = FALSE,
                                              !.output[path] = TRUE], j)
                 ELSE finished_job(manage_error(s1, j, ErrRenaming, FALSE, env), j)
       ELSE IF ~RemoveOk(s1, path, env)
            THEN manage_error(s1, j, ErrRemoving, FALSE, env)
            ELSE LET s2 == [s1 EXCEPT !.file[path] = "absent"]
                 IN IF RenameOk(s2, j, env)
                    THEN finished_job([s2 EXCEPT !.temp[j] = FALSE,
                                                 !.file[path] = "transcoded"], j)
                    ELSE finished_job(manage_error(s2, j, ErrRenaming, FALSE, env), j)

\* ------------------------------------- FfprobeLauncher / FfmpegLauncher
\* k is "ffprobe" or "ffmpeg"; s[k][j] is the launcher of job j.
Report(s, k, j, what) == [s EXCEPT ![k][j].reports = Append(@, what)]

at_finalization(s, k, j, env) ==
    IF k = "ffprobe"
    THEN increase_volume(Report(s, k, j, "finished"), j, s.ffprobe[j].duration, env)
    ELSE conversion_finished(Report(s, k, j, "finished"), j, env)

\* variant: asks the job to keep the temporary file
at_finalization_with_error_keep(s, k, j, error, env) ==
    IF ~s[k][j].error
    THEN manage_error(Report([s EXCEPT ![k][j].error = TRUE], k, j, "error"),
                      j, error, FALSE, env)
    ELSE s

at_finalization_with_error(s, k, j, error, env) ==
    IF ~s[k][j].error
    THEN manage_error(Report([s EXCEPT ![k][j].error = TRUE], k, j, "error"),
                      j, error, TRUE, env)
    ELSE s

at_termination(s, k, j) == manage_termination(Report(s, k, j, "terminated"), j)

\* float(line)
IsFloat(line) == line \in {"5.000000", "0.000000"}

FloatOf(line) == IF line = "5.000000" THEN 5 ELSE 0

ffprobe_for_each_line(s, j, line, env) ==
    LET s1 == IF s.ffprobe[j].n_lines > 0
              THEN at_finalization_with_error(s, "ffprobe", j, ErrMoreLines, env)
              ELSE s
        s2 == IF IsFloat(line)
              THEN [s1 EXCEPT !.ffprobe[j].duration = FloatOf(line)]
              ELSE at_finalization_with_error(s1, "ffprobe", j, ErrNotFloat, env)
    IN [s2 EXCEPT !.ffprobe[j].n_lines = @ + 1]

\* line.startswith('frame=')
IsProgressLine(line) == line \in {"frame=1 time=00:00:02.00 ", "frame=2 time=00:00:06.00 "}

\* int(h) * 3600 + int(m) * 60 + float(s) of the time field
ElapsedOf(line) ==
    IF line = "frame=1 time=00:00:02.00 " THEN 0 * 3600 + 0 * 60 + 2 ELSE 0 * 3600 + 0 * 60 + 6

ffmpeg_for_each_line(s, j, line) ==
    IF IsProgressLine(line)
    THEN update_conversion_state(s, j, (ElapsedOf(line) * 100) \div s.ffmpeg[j].duration)
    ELSE s

\* ------------------------------------------------------ ProcessLauncher
run(s, k, j, spawn_ok, env) ==
    IF spawn_ok
    THEN [s EXCEPT ![k][j].st = "live", ![k][j].reading = TRUE]
    ELSE at_finalization_with_error([s EXCEPT ![k][j].st = "failed"], k, j, ErrSpawn, env)

\* variant: status 255 counts as terminated whether asked for or not
on_finished_any_255(s, k, j, exit, env) ==
    LET s1 == [s EXCEPT ![k][j].st = "exited", ![k][j].reading = FALSE]
    IN IF exit = "ok"
       THEN at_finalization(s1, k, j, env)
       ELSE IF exit = "e255"
            THEN at_termination(s1, k, j)
            ELSE at_finalization_with_error(s1, k, j, ErrExit, env)

on_finished(s, k, j, exit, env) ==
    LET s1 == [s EXCEPT ![k][j].st = "exited", ![k][j].reading = FALSE]
    IN IF exit = "ok"
       THEN at_finalization(s1, k, j, env)
       ELSE IF s1[k][j].term_signaled /\ exit = "e255"
            THEN at_termination(s1, k, j)
            ELSE at_finalization_with_error(s1, k, j, ErrExit, env)

\* _on_data with a non-empty line; the read is queued again afterwards
on_data(s, k, j, line, env) ==
    IF k = "ffprobe"
    THEN ffprobe_for_each_line(s, j, line, env)
    ELSE ffmpeg_for_each_line(s, j, line)

\* _on_data when read_upto_finish or read_byte raises GLib.GError
on_data_error(s, k, j, env) ==
    at_finalization_with_error([s EXCEPT ![k][j].reading = FALSE], k, j, ErrRead, env)

\* ProcessLauncher.terminate: self._process is None until run() has spawned
\* the process, and send_signal then raises AttributeError.
launcher_terminate(s, k, j) ==
    [s |-> [s EXCEPT ![k][j].term_signaled = TRUE],
     raised |-> s[k][j].st \in {"idle", "failed"}]

\* variant: the job is Terminated at once
Job_terminate_now(s, j) ==
    [s |-> manage_termination(s, j), raised |-> FALSE]

Job_terminate(s, j) ==
    LET r1 == IF s.job[j].ffprobe
              THEN launcher_terminate(s, "ffprobe", j)
              ELSE [s |-> s, raised |-> FALSE]
    IN IF r1.raised \/ ~r1.s.job[j].ffmpeg
       THEN r1
       ELSE launcher_terminate(r1.s, "ffmpeg", j)

\* ------------------------------------------- JobsQueue (menu actions)
\* The rows of the ListStore are in creation order, which is id order.
\* variant: removes the rows of running jobs as well
remove_jobs_any(s, job_id_list) ==
    LET hit == job_id_list \cap s.rows
        unq == {j \in hit : s.row[j].status = "Queued"}
    IN [s EXCEPT !.job_queue = SelectSeq(@, LAMBDA j : j \notin unq),
                 !.rows = @ \ hit,
                 !.row = [j \in Ids |-> IF j \in hit THEN NoRow ELSE @[j]]]

\* variant: removes the row of a queued job and leaves the job in the queue
remove_jobs_row_only(s, job_id_list) ==
    LET hit == job_id_list \cap s.rows
        gone == {j \in hit : s.row[j].status \in Terminal \cup {"Queued"}}
    IN [s EXCEPT !.rows = @ \ gone,
                 !.row = [j \in Ids |-> IF j \in gone THEN NoRow ELSE @[j]]]

remove_jobs(s, job_id_list) ==
    LET hit == job_id_list \cap s.rows
        gone == {j \in hit : s.row[j].status \in Terminal \cup {"Queued"}}
        unq == {j \in hit : s.row[j].status = "Queued"}
    IN [s EXCEPT !.job_queue = SelectSeq(@, LAMBDA j : j \notin unq),
                 !.rows = @ \ gone,
                 !.row = [j \in Ids |-> IF j \in gone THEN NoRow ELSE @[j]]]

RECURSIVE get_duration_each(_, _)
get_duration_each(s, q) ==
    IF q = <<>> THEN s
    ELSE get_duration_each(get_duration([s EXCEPT !.job[Head(q)].via = "force"], Head(q)),
                           Tail(q))

\* variant: leaves the launched jobs in the queue
force_launch_keep_queued(s, job_id_list) ==
    LET sel == SelectSeq(s.job_queue, LAMBDA j : j \in job_id_list)
    IN get_duration_each([s EXCEPT !.running_jobs = @ \o sel], sel)

\* variant: launches the listed jobs only while there is a free slot
force_launch_bounded(s, job_id_list) ==
    LET sel == IF Len(s.running_jobs) < s.max_jobs
               THEN SelectSeq(s.job_queue, LAMBDA j : j \in job_id_list)
               ELSE <<>>
    IN get_duration_each([s EXCEPT !.job_queue = SelectSeq(@, LAMBDA j : j \notin Range(sel)),
                                   !.running_jobs = @ \o sel], sel)

force_launch_queued_jobs(s, job_id_list) ==
    LET sel == SelectSeq(s.job_queue, LAMBDA j : j \in job_id_list)
    IN get_duration_each([s EXCEPT !.job_queue = SelectSeq(@, LAMBDA j : j \notin job_id_list),
                                   !.running_jobs = @ \o sel], sel)

RECURSIVE add_job_each(_, _, _)
add_job_each(s, ids, from) ==
    IF from \notin Ids THEN s
    ELSE add_job_each(IF from \in ids THEN add_job(s, s.row[from].file_name) ELSE s,
                      ids, from + 1)

\* variant: takes the old rows off the list
launch_again_replacing(s, job_id_list) ==
    remove_jobs(add_job_each(s, job_id_list \cap s.rows, 0), job_id_list)

launch_again_failed_jobs(s, job_id_list) ==
    add_job_each(s, job_id_list \cap s.rows, 0)

RECURSIVE terminate_each(_, _, _)
terminate_each(s, q, job_id_list) ==
    IF q = <<>> THEN s
    ELSE IF Head(q) \notin job_id_list THEN terminate_each(s, Tail(q), job_id_list)
    ELSE LET r == Job_terminate(s, Head(q))
         IN IF r.raised THEN r.s ELSE terminate_each(r.s, Tail(q), job_id_list)

\* variant: asks every job to terminate, running or not
terminate_jobs_any(s, job_id_list) ==
    terminate_each(s, [i \in 1 .. Cardinality(Ids) |-> i - 1], job_id_list)

terminate_jobs(s, job_id_list) == terminate_each(s, s.running_jobs, job_id_list)

\* variant: stores the number of jobs without looking at the queue
on_destroy_no_check(s, n, keep) ==
    [s EXCEPT !.max_jobs = n, !.keep_original = keep]

\* Preferences._on_destroy
on_destroy(s, n, keep) ==
    LET s1 == IF s.max_jobs # n THEN check_queue([s EXCEPT !.max_jobs = n]) ELSE s
    IN [s1 EXCEPT !.keep_original = keep]

\* ---------------------------------------------------------------- Init
InitIn(w) ==
    /\ world = w
    /\ max_jobs \in 1 .. CpuCount
    /\ keep_original \in BOOLEAN
    /\ job_id = 0
    /\ job_queue = <<>>
    /\ running_jobs = <<>>
    /\ rows = {}
    /\ row = [j \in Ids |-> NoRow]
    /\ job = [j \in Ids |-> NoJob]
    /\ ffprobe = [j \in Ids |-> NoLauncher]
    /\ ffmpeg = [j \in Ids |-> NoLauncher]
    /\ file = [p \in Paths |-> "original"]
    /\ output = [p \in Paths |-> FALSE]
    /\ temp = [j \in Ids |-> FALSE]
    /\ notified = [j \in Ids |-> NoCalls]
    /\ crashed = FALSE
    /\ faults = 0

Init == InitIn("pipeline")

InitQueue == InitIn("queue") /\ ~keep_original

InitCommit == InitIn("commit") /\ ~keep_original

\* -------------------------------------------------------------- actions
Kinds == {"ffprobe", "ffmpeg"}

\* The id lists of the menu actions are built from rows of the job list.
IdSets == SUBSET (0 .. (job_id - 1)) \ {{}}

JobCap == IF world = "queue" THEN QueueJobs ELSE MaxJobs

\* The files are interchangeable: the user picks a file that was picked
\* before, or the first file that was not.
Touched(p) ==
    \/ \E j \in rows : row[j].file_name = p
    \/ \E j \in Ids : job[j].file_name = p
    \/ file[p] # "original"
    \/ output[p]

UserPaths ==
    {PathSeq[i] : i \in {n \in 1 .. (IF world = "queue" THEN 3 ELSE 2) :
                            Touched(PathSeq[n]) \/ \A m \in 1 .. (n - 1) : Touched(PathSeq[m])}}

UserKeeps == IF world = "pipeline" THEN BOOLEAN ELSE {keep_original}

PrintedLines == IF world = "pipeline" THEN FfmpegLines ELSE {"Press [q] to stop"}

AddJob(path) ==
    /\ job_id < JobCap
    /\ Becomes(add_job(S, path))

RemoveJobs(ids) == Becomes(remove_jobs(S, ids))

ForceLaunch(ids) == Becomes(force_launch_queued_jobs(S, ids))

LaunchAgain(ids) ==
    /\ job_id + Cardinality(ids \cap rows) <= JobCap
    /\ Becomes(launch_again_failed_jobs(S, ids))

\* The number of faults of one run.
FaultCap == IF world = "commit" THEN CommitFaults ELSE MaxFaults

MayFail == faults < FaultCap

\* Outside the "pipeline" world a Terminate from the menu counts as a fault.
TerminateJobs(ids) ==
    /\ world # "pipeline" => MayFail
    /\ Becomes([terminate_jobs(S, ids) EXCEPT !.faults = IF world # "pipeline" THEN @ + 1 ELSE @])

PreferencesClose(n, keep) == Becomes(on_destroy(S, n, keep))

\* The environment's part of a callback: f says whether it is a failure.
Fault(f, s) == [s EXCEPT !.faults = IF f THEN @ + 1 ELSE @]

\* Outcomes of os.remove of the temporary file in _manage_error, in a
\* callback that reports an error: it works, or it fails as one more fault.
Cleanups == IF faults + 2 <= FaultCap THEN {EnvOk, Fails("rm_temp_ok")} ELSE {EnvOk}

\* the idle callback installed by GLib.idle_add(launcher.run)
Run(k, j) ==
    /\ S[k][j].st = "idle"
    /\ \/ Becomes(run(S, k, j, TRUE, EnvOk))
       \/ /\ MayFail
          /\ Becomes(Fault(TRUE, run(S, k, j, FALSE, EnvOk)))

\* ffprobe prints one line, a positive number of seconds
GoodLine(j, line) == ffprobe[j].n_lines = 0 /\ line = "5.000000"

\* The elapsed time ffmpeg has printed last: the process prints elapsed times
\* that do not decrease.
Printed(j, line) == IF IsProgressLine(line) THEN ElapsedOf(line) ELSE ffmpeg[j].elapsed

\* _on_data with a line.  A read that returns None, and a line handler that
\* raises, only end the reading; a run in which they happen is a run in which
\* no further line is delivered, so they are not separate actions.
OnData(k, j) ==
    /\ S[k][j].st = "live" /\ S[k][j].reading
    /\ \/ /\ k = "ffprobe"
          /\ ffprobe[j].n_lines < MaxLines
          /\ \E line \in ProbeLines :
                /\ GoodLine(j, line) \/ MayFail
                /\ Becomes(Fault(~GoodLine(j, line), on_data(S, k, j, line, EnvOk)))
       \/ /\ k = "ffmpeg"
          /\ \E line \in PrintedLines :
                /\ IsProgressLine(line) => ElapsedOf(line) >= ffmpeg[j].elapsed
                /\ Becomes([on_data(S, k, j, line, EnvOk) EXCEPT
                               !.ffmpeg[j].elapsed = Printed(j, line)])

OnDataError(k, j) ==
    /\ S[k][j].st = "live" /\ S[k][j].reading
    /\ MayFail
    /\ \E env \in Cleanups :
          Becomes(Fault(env # EnvOk, Fault(TRUE, on_data_error(S, k, j, env))))

\* the process ends the way it should: with status 0 after its output was
\* read, or with status 255 after SIGTERM
GoodExit(k, j, exit) ==
    \/ exit = "ok" /\ (k = "ffprobe" => ffprobe[j].n_lines > 0)
    \/ exit = "e255" /\ S[k][j].term_signaled

OnFinished(k, j) ==
    /\ S[k][j].st = "live"
    /\ \E exit \in Exits :
          \/ /\ GoodExit(k, j, exit) \/ MayFail
             /\ \E env \in IF GoodExit(k, j, exit) THEN {EnvOk} ELSE Cleanups :
                   Becomes(Fault(env # EnvOk, Fault(~GoodExit(k, j, exit),
                                                    on_finished(S, k, j, exit, env))))
          \/ /\ GoodExit(k, j, exit)
             /\ MayFail
             /\ \E call \in IF k = "ffprobe" THEN {"mkstemp_ok"}
                            ELSE {"rm_orig_ok", "rename_ok"} :
                   Becomes(Fault(TRUE, on_finished(S, k, j, exit, Fails(call))))

\* A callback of a launcher whose job lost its ListStore row uses the stale
\* Gtk.TreeIter self._row: the write is either dropped (SetRow) or the
\* process dies.
StaleRow(j) ==
    /\ j \notin rows
    /\ ffprobe[j].st = "live" \/ ffmpeg[j].st \in {"idle", "live"}
    /\ Becomes([S EXCEPT !.crashed = TRUE])

Next ==
    \/ \E path \in UserPaths : AddJob(path)
    \/ \E ids \in IdSets : RemoveJobs(ids)
    \/ \E ids \in IdSets : ForceLaunch(ids)
    \/ \E ids \in IdSets : LaunchAgain(ids)
    \/ \E ids \in IdSets : TerminateJobs(ids)
    \/ \E n \in 1 .. CpuCount, keep \in UserKeeps : PreferencesClose(n, keep)
    \/ \E k \in Kinds, j \in Ids : Run(k, j)
    \/ \E k \in Kinds, j \in Ids : OnData(k, j)
    \/ \E k \in Kinds, j \in Ids : OnDataError(k, j)
    \/ \E k \in Kinds, j \in Ids : OnFinished(k, j)
    \/ \E j \in Ids : StaleRow(j)

Spec == Init /\ [][Next]_vars

SpecQueue == InitQueue /\ [][Next]_vars

SpecCommit == InitCommit /\ [][Next]_vars

\* The GLib main loop runs every idle callback and every completion callback
\* that is pending, and every spawned process prints its output and ends.
Scheduling ==
    \A k \in Kinds, j \in Ids :
        /\ WF_vars(Run(k, j))
        /\ WF_vars(OnData(k, j))
        /\ WF_vars(OnFinished(k, j))

SpecLive == Init /\ [][Next]_vars /\ Scheduling

\* ================================================================ claims
Over == Len(running_jobs) > max_jobs

ForceStep == \E ids \in IdSets : ForceLaunch(ids)

\* the step moves a job with force_launch_queued_jobs
Forced == \E j \in Ids : job[j].via # "force" /\ job'[j].via = "force"

Waiting == Range(running_jobs) \cup Range(job_queue)

C2_DuplicateRejected ==
    \A p \in Paths :
        (\E j \in Waiting : row[j].file_name = p) =>
            LET t == add_job(S, p)
            IN /\ t.dialog = "Duplicated entry"
               /\ t.running_jobs = running_jobs
               /\ t.job_queue = job_queue
               /\ t.rows = rows
               /\ t.row = row
               /\ t.job = job
               /\ t.job_id = job_id

\* C2 witness: the path of a queued job can be submitted again.
C2_Witness ==
    /\ job_id < JobCap
    /\ \E j \in Range(job_queue) : row[j].file_name \in UserPaths

\* C3: the running jobs and the queued jobs are distinct jobs with distinct
\* paths.
C3_OnePathOnce ==
    LET all == running_jobs \o job_queue
    IN \A a, b \in DOMAIN all :
          a # b => all[a] # all[b] /\ job[all[a]].file_name # job[all[b]].file_name

\* C3 witness: a path of a failed or terminated job is running or queued
\* again, next to another job.
C3_Witness ==
    /\ Cardinality(Waiting) >= 2
    /\ \E j \in rows, i \in Waiting :
          /\ row[j].status \in {"Failed", "Terminated"}
          /\ i # j
          /\ row[i].file_name = row[j].file_name

\* C4: a step that creates one job starts it when fewer than config.max_jobs
\* jobs are running and appends it to the queue otherwise; a step in which a
\* running job becomes Finished, Failed or Terminated takes it off the
\* running jobs and, if the queue is not empty and there is room, starts the
\* head of the queue.
C4_AdmitOrQueue ==
    [][/\ job_id' = job_id + 1 =>
            IF Len(running_jobs) < max_jobs
            THEN /\ running_jobs' = Append(running_jobs, job_id)
                 /\ row'[job_id].status = "Running"
                 /\ job_queue' = job_queue
            ELSE /\ job_queue' = Append(job_queue, job_id)
                 /\ row'[job_id].status = "Queued"
                 /\ running_jobs' = running_jobs
       /\ \A j \in Range(running_jobs) :
            (row[j].status = "Running" /\ row'[j].status \in Terminal) =>
                /\ j \notin Range(running_jobs')
                /\ (job_queue # <<>> /\ Len(running_jobs) - 1 < max_jobs) =>
                      /\ Head(job_queue) \in Range(running_jobs')
                      /\ Head(job_queue) \notin Range(job_queue')
                      /\ row[Head(job_queue)].status = "Queued"
                      /\ row'[Head(job_queue)].status = "Running"]_vars

\* C4 witness: a job taken from the queue runs, and a job has ended.
C4_Witness ==
    /\ \E j \in Range(running_jobs) : job[j].via = "dequeue" /\ row[j].status = "Running"
    /\ \E j \in rows : row[j].status \in Terminal

\* C5: in a step that is not a force launch, a queued job is started only
\* together with or after every job queued before it, and the jobs that stay
\* queued keep their order.
C5_Fifo ==
    [][~Forced =>
          \A a, b \in DOMAIN job_queue :
              a < b =>
                 /\ job_queue[b] \in Range(running_jobs') =>
                        job_queue[a] \in Range(running_jobs')
                 /\ (job_queue[a] \in Range(job_queue') /\ job_queue[b] \in Range(job_queue')) =>
                        \E x, y \in DOMAIN job_queue' :
                            x < y /\ job_queue'[x] = job_queue[a] /\ job_queue'[y] = job_queue[b]]_vars

\* C5 witness: a job taken from the queue runs while a job queued after it
\* still waits.
C5_Witness ==
    \E j \in Range(running_jobs), q \in Range(job_queue) :
        job[j].via = "dequeue" /\ j < q

\* C6: every launcher emits at most one of finished, finished_with_error
\* and terminated, and one that has exited or failed to spawn has emitted
\* exactly one; so nothing follows a finished_with_error.
C6_OneReportPerProcess ==
    \A j \in Ids :
        \A l \in {ffprobe[j], ffmpeg[j]} :
            /\ Len(l.reports) <= 1
            /\ l.st \in {"exited", "failed"} => Len(l.reports) = 1

\* C7: _finished_job is called at most once for a job and never for a job
\* that is not in _running_jobs, and it was called once for every job whose
\* row shows Finished, Failed or Terminated.
C7_NotifiedOnce ==
    \A j \in Ids :
        /\ notified[j].calls <= 1
        /\ notified[j].stray = 0
        /\ (j \in rows /\ row[j].status \in Terminal) => notified[j].calls = 1

\* C8: a row that shows Finished, Failed or Terminated shows the same status
\* after every step that keeps the row.
C8_TerminalStays ==
    [][\A j \in rows \cap rows' :
          row[j].status \in Terminal => row'[j].status = row[j].status]_vars

\* C9: a job whose ffprobe printed more than one line shows Failed with the
\* "Expected just one line, got more" error, and its ffmpeg process is never
\* spawned.
C9_NoTranscoderAfterTwoLines ==
    \A j \in rows :
        (ffprobe[j].n_lines > 1 \/ row[j].error = ErrMoreLines) =>
            /\ row[j].status = "Failed"
            /\ row[j].error = ErrMoreLines
            /\ ffmpeg[j].st \notin {"live", "exited"}

\* C10: the step in which the ffprobe of a Running job exits with status 0
\* after no line, or after a line that reads as 0, leaves the row Failed with
\* an error text and the job out of _running_jobs, without an ffmpeg launcher.
C10_ZeroDurationFails ==
    [][\A j \in rows :
          (/\ row[j].status = "Running"
           /\ ffprobe[j].st = "live"
           /\ ~ffprobe[j].error
           /\ ffprobe[j].duration = 0
           /\ ffprobe'[j].st = "exited"
           /\ ffprobe'[j].reports = Append(ffprobe[j].reports, "finished")) =>
              /\ j \in rows'
              /\ row'[j].status = "Failed"
              /\ row'[j].error # ""
              /\ j \notin Range(running_jobs')
              /\ ffmpeg'[j].st = "none"]_vars

\* Whether terminate_jobs ends with the AttributeError of a launcher that has
\* no process yet.
RECURSIVE terminate_raises(_, _, _)
terminate_raises(s, q, job_id_list) ==
    IF q = <<>> THEN FALSE
    ELSE IF Head(q) \notin job_id_list THEN terminate_raises(s, Tail(q), job_id_list)
    ELSE LET r == Job_terminate(s, Head(q))
         IN r.raised \/ terminate_raises(r.s, Tail(q), job_id_list)

\* the rows that do not show Running
Idle == {j \in rows : row[j].status \in Terminal \cup {"Queued"}}

\* C11: terminate_jobs with ids of rows that show Queued, Finished, Failed
\* or Terminated raises nothing and changes nothing: not the rows, not the
\* running jobs, not the queue, not a launcher.
C11_TerminateIdleNoEffect ==
    \A ids \in SUBSET Idle :
        /\ terminate_jobs(S, ids) = S
        /\ ~terminate_raises(S, running_jobs, ids)

\* C11 witness: a queued job and a failed job whose abandoned ffmpeg still
\* runs, next to a running job with a process that could be signalled.
C11_Witness ==
    /\ \E j \in Idle : row[j].status = "Queued"
    /\ \E j \in Idle : row[j].status = "Failed" /\ job[j].ffmpeg /\ ffmpeg[j].st = "live"
    /\ \E j \in Range(running_jobs) : job[j].ffprobe /\ ffprobe[j].st = "live"

\* the jobs one of whose launchers reported "terminated": terminate was
\* called on them, once or more
Signalled ==
    {j \in Ids : \E l \in {ffprobe[j], ffmpeg[j]} :
                    \E i \in DOMAIN l.reports : l.reports[i] = "terminated"}

\* terminate_jobs applied twice leaves the state that terminate_jobs applied
\* once leaves
TerminateIdempotent ==
    \A ids \in SUBSET Range(running_jobs) :
        terminate_jobs(terminate_jobs(S, ids), ids) = terminate_jobs(S, ids)

\* C12: a second terminate_jobs changes nothing after the first, and
\* _finished_job is called at most once for a job that was asked to
\* terminate, once or more.
C12_TerminateTwice ==
    /\ TerminateIdempotent
    /\ \A j \in Signalled : notified[j].calls <= 1

\* the step sets the request flag of a launcher of job j
Requested(j) ==
    \/ ~ffprobe[j].term_signaled /\ ffprobe'[j].term_signaled
    \/ ~ffmpeg[j].term_signaled /\ ffmpeg'[j].term_signaled

\* the step handles the exit of a launcher of job j that was asked to
\* terminate, and the launcher reports "terminated"
ExitTerminated(j) ==
    \/ /\ ffprobe[j].st = "live" /\ ffprobe[j].term_signaled
       /\ ffprobe'[j].st = "exited"
       /\ ffprobe'[j].reports = Append(ffprobe[j].reports, "terminated")
    \/ /\ ffmpeg[j].st = "live" /\ ffmpeg[j].term_signaled
       /\ ffmpeg'[j].st = "exited"
       /\ ffmpeg'[j].reports = Append(ffmpeg[j].reports, "terminated")

NewReports(k, j, exit) ==
    LET t == on_finished(S, k, j, exit, EnvOk)
    IN SubSeq(t[k][j].reports, Len(S[k][j].reports) + 1, Len(t[k][j].reports))

\* C14: a process that ends makes its launcher report "terminated" exactly
\* when terminate was called on the launcher and the exit status is 255; with
\* status 0 it reports "finished", also after terminate; with any other
\* outcome it reports "error" unless it has reported one.  A row shows
\* Terminated only if a launcher of its job reported "terminated".
C14_TerminatedIffRequested ==
    /\ \A k \in Kinds, j \in Ids :
          S[k][j].st = "live" =>
              \A exit \in Exits :
                  NewReports(k, j, exit) =
                      IF exit = "ok" THEN <<"finished">>
                      ELSE IF exit = "e255" /\ S[k][j].term_signaled THEN <<"terminated">>
                      ELSE IF S[k][j].error THEN <<>>
                      ELSE <<"error">>
    /\ \A j \in rows : row[j].status = "Terminated" => j \in Signalled

\* C14 witness: a live process on which terminate was called, and a row
\* that is Terminated after its ffmpeg was asked to terminate and exited.
C14_Witness ==
    /\ \E j \in Ids : ffprobe[j].st = "live" /\ ffprobe[j].term_signaled
    /\ \E j \in rows : row[j].status = "Terminated" /\ ffmpeg[j].reports = <<"terminated">>

\* the step handles the exit with status 0 of the ffmpeg of job j
TranscodeSuccess(j) ==
    /\ ffmpeg[j].st = "live"
    /\ ffmpeg'[j].st = "exited"
    /\ ffmpeg'[j].reports = Append(ffmpeg[j].reports, "finished")

\* the row of job j, if it is still there, shows Failed with the error e
FailedWith(j, e) ==
    j \in rows => j \in rows' /\ row'[j].status = "Failed" /\ row'[j].error = e

\* C15 (as claimed): when ffmpeg ends well for a job that keeps the original
\* and the output file exists, the job is Failed with the "File exists"
\* error, the temporary file is gone and the input file is as it was.
C15_OutputExistsRemovesTemp ==
    [][\A j \in Ids :
          (TranscodeSuccess(j) /\ job[j].keep_original /\ output[job[j].file_name]) =>
              /\ FailedWith(j, ErrNotRenaming)
              /\ ~temp'[j]
              /\ file' = file
              /\ output' = output]_vars

\* C15 (amended): when ffmpeg ends well for a job that keeps the original
\* and the output file exists, the job is Failed with the "File exists"
\* error, the temporary file is left as it was and so are the input file
\* and the output file.
C15_OutputExistsKeepsTemp ==
    [][\A j \in Ids :
          (TranscodeSuccess(j) /\ job[j].keep_original /\ output[job[j].file_name]) =>
              /\ FailedWith(j, ErrNotRenaming)
              /\ temp'[j] = temp[j]
              /\ file' = file
              /\ output' = output]_vars

\* C15 witness: a job that kept the original failed on the existing output
\* file after its ffmpeg ended well, and its temporary file is there.
C15_Witness ==
    \E j \in rows :
        /\ row[j].status = "Failed" /\ row[j].error = ErrNotRenaming
        /\ row[j].keep_original
        /\ ffmpeg[j].st = "exited"
        /\ temp[j]
        /\ output[row[j].file_name]

\* the step removes the input file of job j and does not put another file
\* in its place: os.remove succeeded and os.rename failed
RemovedNotRenamed(j) ==
    /\ TranscodeSuccess(j)
    /\ ~job[j].keep_original
    /\ file[job[j].file_name] # "absent"
    /\ file'[job[j].file_name] = "absent"

\* C16: when ffmpeg ends well for a job that does not keep the original, the
\* input file is removed and the rename fails, the job is Failed with the
\* "Error renaming" error, the input file is gone and the temporary file
\* exists.
C16_RenameFailureKeepsTemp ==
    [][\A j \in Ids :
          RemovedNotRenamed(j) =>
              /\ FailedWith(j, ErrRenaming)
              /\ file'[job[j].file_name] = "absent"
              /\ temp'[j]]_vars

\* the step handles the exit with status 0 of the ffmpeg of job j, removes
\* the input file and renames the temporary file to it
Committed(j) ==
    /\ TranscodeSuccess(j)
    /\ ~job[j].keep_original
    /\ file[job[j].file_name] # "absent"
    /\ temp[j]
    /\ ~temp'[j]

\* C17: when ffmpeg ends well for a job that does not keep the original and
\* both os.remove and os.rename succeed, the input path holds the transcoded
\* file, the temporary file is gone, the row shows Finished and
\* _finished_job has been called exactly once for the job.
C17_CommitReplacesInput ==
    [][\A j \in rows :
          Committed(j) =>
              /\ file'[job[j].file_name] = "transcoded"
              /\ ~temp'[j]
              /\ j \in rows'
              /\ row'[j].status = "Finished"
              /\ notified'[j].calls = 1
              /\ notified'[j].stray = 0]_vars

\* the same without the count of the calls of _finished_job
CommitFiles ==
    [][\A j \in rows :
          Committed(j) =>
              /\ file'[job[j].file_name] = "transcoded"
              /\ ~temp'[j]
              /\ j \in rows'
              /\ row'[j].status = "Finished"]_vars

\* C18: remove_jobs leaves every selected row that shows Running in the job
\* list as it is, takes no job off _running_jobs and touches no launcher.
C18_RemoveRunningRejected ==
    \A ids \in SUBSET rows :
        LET t == remove_jobs(S, ids)
        IN /\ \A j \in ids :
                 row[j].status = "Running" => j \in t.rows /\ t.row[j] = row[j]
           /\ t.running_jobs = running_jobs
           /\ t.job = job
           /\ t.ffprobe = ffprobe
           /\ t.ffmpeg = ffmpeg

\* C18 witness: a Running job with a live process and a Failed row, which
\* can be selected together.
C18_Witness ==
    /\ \E j \in Range(running_jobs) : row[j].status = "Running" /\ ffmpeg[j].st = "live"
    /\ \E j \in rows : row[j].status = "Failed"

\* the step removes the row of job j, which shows Queued
RemovedQueued(j) == j \in rows /\ row[j].status = "Queued" /\ j \notin rows'

\* C19: a step that removes a Queued row takes the job off the queue, leaves
\* the running jobs as they are and creates no launcher for the job.  In
\* every step, a job enters the queue only when it is created, an ffprobe
\* launcher is created only for a job that is created or that was in the
\* queue, and an ffmpeg launcher only for a job whose ffprobe is alive: so
\* the removed job, which is in no list, never starts a process.
C19_RemovedQueuedNeverRuns ==
    [][/\ job_id' >= job_id
       /\ \A j \in Ids :
             /\ RemovedQueued(j) =>
                   /\ j \notin Range(job_queue')
                   /\ j \notin Range(running_jobs')
                   /\ running_jobs' = running_jobs
                   /\ ffprobe'[j].st = "none"
                   /\ ffmpeg'[j].st = "none"
             /\ (j \in Range(job_queue') /\ j \notin Range(job_queue)) => j >= job_id
             /\ (ffprobe[j].st = "none" /\ ffprobe'[j].st # "none") =>
                   j >= job_id \/ j \in Range(job_queue)
             /\ (ffmpeg[j].st = "none" /\ ffmpeg'[j].st # "none") =>
                   ffprobe[j].st = "live"]_vars

\* C19 witness: no job has ended yet (nothing failed, no file was replaced),
\* a job was removed while it was queued, and the job queued after it was
\* started in its place when there was room.
C19_Witness ==
    /\ faults = 0
    /\ \A p \in Paths : file[p] = "original"
    /\ \E j \in 0 .. (job_id - 1) :
          /\ j \notin rows
          /\ \E i \in Range(running_jobs) : i > j /\ job[i].via = "dequeue"

\* the rows that show Failed or Terminated
Relaunchable == {j \in rows : row[j].status \in {"Failed", "Terminated"}}

\* C20: launch_again_failed_jobs on one Failed or Terminated row is add_job
\* on the path of the row; on any selection of such rows it leaves every
\* row there was as it is and gives every job it creates the next unused id.
C20_RelaunchIsSubmit ==
    \A ids \in SUBSET Relaunchable :
        (job_id + Cardinality(ids) <= JobCap) =>
            LET t == launch_again_failed_jobs(S, ids)
            IN /\ \A j \in ids :
                     ids = {j} => t = add_job(S, row[j].file_name)
               /\ \A j \in rows : j \in t.rows /\ t.row[j] = row[j]
               /\ t.rows \ rows = job_id .. (t.job_id - 1)
               /\ t.job_id <= job_id + Cardinality(ids)
               /\ Range(t.running_jobs) \cup Range(t.job_queue)
                     = Waiting \cup (t.rows \ rows)

\* C20 witness: a Failed row was launched again as a new job with the same
\* path, the Failed row is still there, and it can be launched once more.
C20_Witness ==
    /\ job_id < JobCap
    /\ \E j \in Relaunchable, i \in Waiting :
          /\ i > j
          /\ row[i].file_name = row[j].file_name
          /\ row[j].error # ""

\* C21: every row has an id below the counter; a step never lowers the
\* counter, gives the rows it creates the ids from the old counter up to the
\* new one, and the jobs it adds to the running jobs or to the queue from
\* outside are those; a row that stays keeps its file name.  So an id is
\* given once, in creation order, and the id of a removed row is not given
\* again.
C21_IdsIncrease ==
    [][/\ \A j \in rows : j < job_id
       /\ job_id' >= job_id
       /\ rows' \ rows = job_id .. (job_id' - 1)
       /\ (Range(running_jobs') \cup Range(job_queue')) \ Waiting = job_id .. (job_id' - 1)
       /\ \A j \in rows \cap rows' : row'[j].file_name = row[j].file_name]_vars

\* C21 witness: a row was removed, and jobs created after it are running and
\* queued with higher ids.
C21_Witness ==
    \E j \in 0 .. (job_id - 1) :
        /\ j \notin rows
        /\ \E i \in Range(running_jobs) : i > j /\ job[i].via = "launch"
        /\ \E i \in Range(job_queue) : i > j

ErrorIn(j) ==
    /\ j \in rows \cap rows'
    /\ row'[j].status = "Failed"
    /\ notified'[j].calls > notified[j].calls

\* the step leaves the row and the processes of job i as they were
Untouched(i) ==
    /\ row'[i] = row[i]
    /\ ffprobe'[i] = ffprobe[i]
    /\ ffmpeg'[i] = ffmpeg[i]
    /\ temp'[i] = temp[i]

\* the step takes job i from the queue and launches it
Admitted(i) ==
    /\ i \in Range(job_queue)
    /\ i \in Range(running_jobs') \ Range(job_queue')
    /\ row'[i] = [row[i] EXCEPT !.status = "Running"]
    /\ ffprobe'[i] = NewLauncher(0)
    /\ ffmpeg'[i] = ffmpeg[i]

\* C23: a step in which a job fails leaves every other row in the list, with
\* its status, progress and processes as they were, except for queued jobs
\* that the step launches into free slots; the failed job is neither running
\* nor queued afterwards, the program is alive and the counter and the limit
\* are as they were.
C23_ErrorIsIsolated ==
    [][\A j \in Ids :
          ErrorIn(j) =>
              /\ \A i \in rows \ {j} : i \in rows' /\ (Untouched(i) \/ Admitted(i))
              /\ \A i \in Ids : Admitted(i) => Len(running_jobs') <= Max(max_jobs, Len(running_jobs))
              /\ j \notin Range(running_jobs') \cup Range(job_queue')
              /\ ~crashed'
              /\ job_id' = job_id
              /\ max_jobs' = max_jobs]_vars

\* C23 witness: a job is Failed on the exit status of its process and is not
\* running, while a job that was taken from the queue is running with a live
\* process.
C23_Witness ==
    \E j \in rows, i \in Range(running_jobs) :
        /\ row[j].status = "Failed" /\ row[j].error = ErrExit
        /\ j \notin Range(running_jobs)
        /\ i # j
        /\ job[i].via = "dequeue"
        /\ row[i].status = "Running"
        /\ ffprobe[i].st = "live" \/ ffmpeg[i].st = "live"

\* C24: ffmpeg printing elapsed times that do not decrease, the progress a
\* row shows is between 0 and 100 after every step, and a step does not
\* lower the progress of a row.
C24_ProgressBounded ==
    [][\A j \in rows' :
          /\ row'[j].progress \in 0 .. 100
          /\ j \in rows => row'[j].progress >= row[j].progress]_vars

\* C25: for every list of ids, force_launch_queued_jobs takes the queued
\* jobs that are listed out of the queue, leaves the other queued jobs in
\* their order, appends the listed ones to the running jobs in queue order
\* whatever config.max_jobs is, shows them Running and gives each an ffprobe
\* to run; the rows and the processes of all other jobs are as they were,
\* and a list that names no queued job changes nothing.
C25_ForceLaunchMovesListed ==
    \A ids \in SUBSET Ids :
        LET t == force_launch_queued_jobs(S, ids)
            sel == ids \cap Range(job_queue)
        IN /\ sel = {} => t = S
           /\ t.job_queue = SelectSeq(job_queue, LAMBDA j : j \notin ids)
           /\ t.running_jobs = running_jobs \o SelectSeq(job_queue, LAMBDA j : j \in ids)
           /\ \A j \in sel :
                 /\ t.row[j] = [row[j] EXCEPT !.status = "Running"]
                 /\ t.job[j].ffprobe
                 /\ t.ffprobe[j] = NewLauncher(0)
           /\ \A j \in Ids \ sel :
                 /\ t.row[j] = row[j]
                 /\ t.job[j] = job[j]
                 /\ t.ffprobe[j] = ffprobe[j]
                 /\ t.ffmpeg[j] = ffmpeg[j]
           /\ t.max_jobs = max_jobs
           /\ t.rows = rows

\* C25 witness: a job was force-launched from behind another queued job: it
\* runs beyond config.max_jobs and the job queued before it is still queued.
C25_Witness ==
    /\ Over
    /\ \E j \in Range(running_jobs), i \in Range(job_queue) :
          /\ job[j].via = "force"
          /\ row[j].status = "Running"
          /\ i < j
          /\ row[i].status = "Queued"

\* the step creates the ffmpeg launcher of job j
TranscoderStarts(j) == ffmpeg[j].st = "none" /\ ffmpeg'[j].st # "none"

\* the step writes another progress into the row of job j
ProgressUpdate(j) == j \in rows \cap rows' /\ row'[j].progress # row[j].progress

\* C26: the ffmpeg of a job is created only in the step in which its ffprobe
\* reports "finished"; the progress of a row changes only in a step of the
\* live ffmpeg of its job; and once _finished_job was called for a job, no
\* step creates its ffmpeg or changes its progress.
C26_EventsOrdered ==
    [][\A j \in Ids :
          /\ TranscoderStarts(j) =>
                /\ ffprobe[j].st = "live"
                /\ ffprobe'[j].reports = Append(ffprobe[j].reports, "finished")
          /\ ProgressUpdate(j) => ffmpeg[j].st = "live"
          /\ notified[j].calls > 0 => ~TranscoderStarts(j) /\ ~ProgressUpdate(j)]_vars

\* the number of queued jobs that fit under the limit n
Room(n) ==
    LET free == Max(0, n - Len(running_jobs))
    IN IF Len(job_queue) <= free THEN Len(job_queue) ELSE free

\* C27: after every step, the queue is empty or at least config.max_jobs
\* jobs are running; a step that raises config.max_jobs starts as many jobs
\* from the head of the queue as are queued and fit under the new limit, in
\* queue order, and leaves the rest queued.
C27_NoIdleSlot ==
    [][/\ job_queue' = <<>> \/ Len(running_jobs') >= max_jobs'
       /\ max_jobs' > max_jobs =>
             /\ running_jobs' = running_jobs \o SubSeq(job_queue, 1, Room(max_jobs'))
             /\ job_queue' = SubSeq(job_queue, Room(max_jobs') + 1, Len(job_queue))
             /\ \A j \in Range(running_jobs') \ Range(running_jobs) :
                   row'[j].status = "Running" /\ ffprobe'[j].st = "idle"]_vars

\* C27 witness: config.max_jobs was raised with two jobs queued: the first
\* of them runs next to the job that ran before, the second is still queued.
C27_Witness ==
    /\ max_jobs = 2
    /\ Len(running_jobs) = 2
    /\ job[running_jobs[2]].via = "dequeue"
    /\ row[running_jobs[1]].status = "Running"
    /\ Len(job_queue) = 1
    /\ job_queue[1] > running_jobs[2]

\* the launchers whose process is alive
Live == {<<k, j>> \in Kinds \X Ids : S[k][j].st = "live"}

\* C28: there are at most as many live processes as running jobs, and a job
\* whose row shows Queued, Finished, Failed or Terminated has no live
\* process.
C28_ProcessesOfRunningJobs ==
    /\ Cardinality(Live) <= Len(running_jobs)
    /\ \A j \in rows :
          row[j].status \in Terminal \cup {"Queued"} =>
              /\ ffprobe[j].st # "live"
              /\ ffmpeg[j].st # "live"

\* C29: when ffmpeg ends well for a job that keeps the original and the
\* output file exists, the row shows Failed, the temporary file exists, the
\* input files and the output files are as they were, and _finished_job has
\* been called once for the job.
C29_OutputAppeared ==
    [][\A j \in Ids :
          (TranscodeSuccess(j) /\ job[j].keep_original /\ output[job[j].file_name]) =>
              /\ j \in rows => j \in rows' /\ row'[j].status = "Failed"
              /\ temp'[j]
              /\ file' = file
              /\ output' = output
              /\ notified'[j].calls = 1]_vars

\* C30: when ffmpeg ends well for a job that does not keep the original and
\* os.remove fails on the input file, which exists, then the input files and
\* the output files are as they were, the temporary file exists, the row
\* shows Failed with the "Error removing" error and _finished_job has been
\* called once for the job.
C30_RemoveFails ==
    [][\A j \in rows :
          (/\ TranscodeSuccess(j)
           /\ ~job[j].keep_original
           /\ file[job[j].file_name] # "absent"
           /\ j \in rows' /\ row'[j].error = ErrRemoving) =>
              /\ row'[j].status = "Failed"
              /\ file' = file
              /\ output' = output
              /\ temp'[j]
              /\ notified'[j].calls = 1]_vars

\* the step makes the ffmpeg launcher of job j report an error
TranscoderError(j) == ffmpeg'[j].reports = Append(ffmpeg[j].reports, "error")

\* the error text of the transcoder error the step reports
TranscoderErrorText(j) ==
    IF ffmpeg[j].st = "idle" THEN ErrSpawn
    ELSE IF ffmpeg'[j].st = "exited" THEN ErrExit
    ELSE ErrRead

\* C31: a step in which the ffmpeg of a job reports an error (it could not
\* be spawned, a read failed, or it ended with a status that is not a
\* requested termination) leaves the row Failed with the text of that error,
\* the temporary file gone unless os.remove failed on it in that step, and
\* the input files and the output files as they were.
C31_TranscoderErrorCleansUp ==
    [][\A j \in Ids :
          TranscoderError(j) =>
              /\ FailedWith(j, TranscoderErrorText(j))
              /\ temp'[j] => temp[j] /\ faults' = faults + 2
              /\ file' = file
              /\ output' = output]_vars

\* C31 witness: a job is Failed on the exit status of its ffmpeg, the
\* temporary file is gone and the input file is the original.
C31_Witness ==
    \E j \in rows :
        /\ row[j].status = "Failed" /\ row[j].error = ErrExit
        /\ ffmpeg[j].st = "exited" /\ ffmpeg[j].reports = <<"error">>
        /\ ~temp[j]
        /\ file[row[j].file_name] = "original"

\* the step makes the ffmpeg launcher of job j report that it was terminated
TranscoderTerminated(j) == ffmpeg'[j].reports = Append(ffmpeg[j].reports, "terminated")

\* C32: a step in which the ffmpeg of a job reports that it was terminated
\* leaves the row Terminated, the temporary file in place, the input files
\* and the output files as they were and the job out of the running jobs,
\* and _finished_job has been called once for the job.
C32_TerminatedKeepsTemp ==
    [][\A j \in Ids :
          TranscoderTerminated(j) =>
              /\ j \in rows => j \in rows' /\ row'[j].status = "Terminated"
              /\ temp'[j]
              /\ file' = file
              /\ output' = output
              /\ j \notin Range(running_jobs')
              /\ notified'[j].calls = 1]_vars

\* the step handles the exit with status 0 of the ffprobe of job j, which
\* printed a duration that is not 0
ProbeSuccess(j) ==
    /\ ffprobe[j].st = "live"
    /\ ffprobe'[j].reports = Append(ffprobe[j].reports, "finished")
    /\ ffprobe[j].duration > 0

\* the output file of job j exists and the job keeps the original
OutputInTheWay(j) == job[j].keep_original /\ output[job[j].file_name]

\* C33: a step that handles the good end of ffprobe, when the job keeps the
\* original and its output file exists or when mkstemp fails, leaves the row
\* Failed with the error of that case, no ffmpeg launcher and no temporary
\* file for the job, and the input files and the output files as they were;
\* a row that shows one of the two errors has no ffmpeg launcher.
C33_NoTranscoderWithoutTemp ==
    [][/\ \A j \in Ids :
             (ProbeSuccess(j) /\ (OutputInTheWay(j) \/ faults' > faults)) =>
                 /\ FailedWith(j, IF OutputInTheWay(j) THEN ErrOutputExists ELSE ErrMkstemp)
                 /\ ffmpeg'[j].st = "none"
                 /\ ~temp'[j]
                 /\ file' = file
                 /\ output' = output
       /\ \A j \in rows' :
             row'[j].error \in {ErrOutputExists, ErrMkstemp} =>
                 ffmpeg'[j].st = "none" /\ ~temp'[j]]_vars

\* C33 witness: a job that keeps the original is Failed on the output file
\* that was there when its ffprobe ended well; it has no ffmpeg launcher and
\* no temporary file.
C33_Witness ==
    \E j \in rows :
        /\ row[j].status = "Failed" /\ row[j].error = ErrOutputExists
        /\ row[j].keep_original
        /\ ffprobe[j].reports = <<"finished">>
        /\ ffmpeg[j].st = "none"
        /\ ~temp[j]
        /\ output[row[j].file_name]

\* the step makes the ffmpeg of job j report an error and os.remove fails on
\* the temporary file in _manage_error
CleanupFails(j) == TranscoderError(j) /\ temp[j] /\ temp'[j]

\* C34: a step in which the ffmpeg of a job reports an error and the removal
\* of the temporary file fails leaves the row Failed with the text of the
\* ffmpeg error and the job out of the running jobs, and _finished_job has
\* been called once for the job.
C34_CleanupFailureSwallowed ==
    [][\A j \in Ids :
          CleanupFails(j) =>
              /\ FailedWith(j, TranscoderErrorText(j))
              /\ j \notin Range(running_jobs')
              /\ ~crashed'
              /\ notified'[j].calls = 1]_vars

\* C35: a row with an error text shows Failed, and a step gives a row an
\* error text only if it leaves the row Failed.
C35_ErrorOnlyWhenFailed ==
    [][\A j \in rows' :
          /\ row'[j].error # "" => row'[j].status = "Failed"
          /\ (j \in rows /\ row'[j].error # row[j].error) => row'[j].status = "Failed"]_vars

\* C36: the running jobs are the jobs whose row shows Running, and the
\* queued jobs are the jobs whose row shows Queued.
C36_ListsAgreeWithStatus ==
    /\ Range(running_jobs) = {j \in rows : row[j].status = "Running"}
    /\ Range(job_queue) = {j \in rows : row[j].status = "Queued"}

\* C36 witness: a job that was force-launched runs with a live process next
\* to a queued job, and a job has ended.
C36_Witness ==
    /\ \E j \in Range(running_jobs) : job[j].via = "force" /\ ffprobe[j].st = "live"
    /\ job_queue # <<>>
    /\ \E j \in rows : row[j].status \in Terminal

\* C37: while the program is alive, every job among the running jobs leaves
\* them, and every queued job leaves the queue.
C37_EveryJobLeaves ==
    \A j \in Ids :
        /\ (j \in Range(running_jobs)) ~> (j \notin Range(running_jobs) \/ crashed)
        /\ (j \in Range(job_queue)) ~> (j \notin Range(job_queue) \/ crashed)

\* C38: a step that leaves an input path without a file is a step of a job
\* for that path that does not keep the original, and the temporary file of
\* that job exists after it: so the input file or the temporary file of the
\* job exists in every state.
C38_InputOrTempExists ==
    [][\A p \in Paths :
          (file[p] # "absent" /\ file'[p] = "absent") =>
              \E j \in Ids :
                  /\ TranscodeSuccess(j)
                  /\ job[j].file_name = p
                  /\ ~job[j].keep_original
                  /\ temp'[j]]_vars

\* the jobs whose ffmpeg process is alive
Transcoding == {j \in Ids : ffmpeg[j].st = "live"}

\* C39: two jobs whose ffmpeg processes are alive have different input
\* paths.
C39_OneTranscoderPerPath ==
    \A i, j \in Transcoding : i # j => job[i].file_name # job[j].file_name

\* the launchers of job j that have a process to signal
Signallable(j) ==
    {k \in Kinds : S[k][j].st = "live"}

\* C40: terminate on a job whose row shows Running raises nothing, and a
\* process of the job is alive to receive the signal.
C40_TerminateRunningDelivers ==
    \A j \in rows :
        row[j].status = "Running" =>
            /\ ~Job_terminate(S, j).raised
            /\ Signallable(j) # {}

====
